---- MODULE Spec2Model ----
(***************************************************************************)
(* QPAnalyze (src/app.py): a Flask application that scans uploaded PDFs    *)
(* for question-like lines, has them rewritten by a remote model, falls    *)
(* back to a fixed template bank, and tallies keywords.                    *)
(*                                                                         *)
(* A Python str is a sequence of characters; a character is a one-         *)
(* character TLA+ string, except the three non-ASCII glyphs of line 52,    *)
(* which are named by their code points.                                   *)
(***************************************************************************)
EXTENDS Integers, Sequences, FiniteSets, TLC

VARIABLES
    fs,               \* the upload directory: path -> document, or NoFile
    pc,               \* where the pipeline / the analyze request stands
    text,             \* the raw text handed to extract_question_candidates
    candidates,       \* analyze's candidates / the scanner's result
    rescan,           \* the scanner's result on its own output
    response,         \* what requests.post and r.json() produce
    final_questions,  \* ai_clean_questions' result
    raised,           \* the exception that left the handler, or NoExc
    keywords,         \* extract_keywords' result
    selected,         \* request.form.getlist("selected_pdfs")
    idx,              \* position of analyze's loop over selected
    http,             \* what the analyze request answered
    cpc,              \* where the clear request stands
    clist,            \* clear's listing, get_uploaded_files()
    cidx,             \* position of clear's loop
    startFiles,       \* history: the files present when analyze started
    removed           \* history: the files clear removed since then

vars == <<fs, pc, text, candidates, rescan, response, final_questions, raised,
          keywords, selected, idx, http, cpc, clist, cidx, startFiles, removed>>

----------------------------------------------------------------------------
(* Python str primitives, on the model's alphabet.                         *)

Chars(s) == [i \in 1..Len(s) |-> SubSeq(s, i, i)]

Range(xs) == {xs[i] : i \in 1..Len(xs)}

MinOf(S) == CHOOSE m \in S : \A n \in S : m <= n

MaxOf(S) == CHOOSE m \in S : \A n \in S : m >= n

BULLET == "U+2022"

EN_DASH == "U+2013"

EM_DASH == "U+2014"

LowerLetters == Chars("abcdefghijklmnopqrstuvwxyz")

UpperLetters == Chars("ABCDEFGHIJKLMNOPQRSTUVWXYZ")

AsciiLower == Range(LowerLetters)

AsciiUpper == Range(UpperLetters)

\* \s of re, and what str.strip() and str.split() take for whitespace
Whitespace == {" ", "\t", "\n", "\r", "\f"}

LowerTable == [c \in AsciiUpper |-> LowerLetters[CHOOSE i \in 1..26 : UpperLetters[i] = c]]

UpperTable == [c \in AsciiLower |-> UpperLetters[CHOOSE i \in 1..26 : LowerLetters[i] = c]]

\* str.lower()
lower(s) == [i \in 1..Len(s) |-> IF s[i] \in AsciiUpper THEN LowerTable[s[i]] ELSE s[i]]

\* str.capitalize(): the first character upper-cased, the rest lower-cased
capitalize(s) ==
    [i \in 1..Len(s) |->
        IF i = 1
        THEN IF s[i] \in AsciiLower THEN UpperTable[s[i]] ELSE s[i]
        ELSE IF s[i] \in AsciiUpper THEN LowerTable[s[i]] ELSE s[i]]

\* str.strip()
strip(s) ==
    LET solid == {i \in 1..Len(s) : s[i] \notin Whitespace}
    IN  IF solid = {} THEN <<>> ELSE SubSeq(s, MinOf(solid), MaxOf(solid))

\* str.startswith(p)
startswith(s, p) == Len(s) >= Len(p) /\ SubSeq(s, 1, Len(p)) = p

\* str.endswith(p)
endswith(s, p) == Len(s) >= Len(p) /\ SubSeq(s, Len(s) - Len(p) + 1, Len(s)) = p

\* c in s, for one character
contains(s, c) == \E i \in 1..Len(s) : s[i] = c

\* str.split(sep), sep one character: always at least one piece
RECURSIVE split_on(_, _)
split_on(s, sep) ==
    LET hits == {i \in 1..Len(s) : s[i] = sep}
    IN  IF hits = {}
        THEN <<s>>
        ELSE LET k == MinOf(hits)
             IN  <<SubSeq(s, 1, k - 1)>> \o split_on(SubSeq(s, k + 1, Len(s)), sep)

\* str.split(): the maximal runs of non-whitespace
RECURSIVE split_words(_)
split_words(s) ==
    LET solid == {i \in 1..Len(s) : s[i] \notin Whitespace}
    IN  IF solid = {}
        THEN <<>>
        ELSE LET a == MinOf(solid)
                 gaps == {i \in a..Len(s) : s[i] \in Whitespace}
                 b == IF gaps = {} THEN Len(s) + 1 ELSE MinOf(gaps)
             IN  <<SubSeq(s, a, b - 1)>> \o split_words(SubSeq(s, b, Len(s)))

\* sep.join(parts)
RECURSIVE join(_, _)
join(sep, parts) ==
    IF parts = <<>> THEN <<>>
    ELSE IF Len(parts) = 1 THEN parts[1]
    ELSE parts[1] \o sep \o join(sep, Tail(parts))

\* list(dict.fromkeys(xs)): the first occurrence of each element, in order
dedup(xs) ==
    LET firsts == {i \in 1..Len(xs) : \A j \in 1..(i - 1) : xs[j] # xs[i]}
        nth(k) == CHOOSE i \in firsts : Cardinality({j \in firsts : j <= i}) = k
    IN  [k \in 1..Cardinality(firsts) |-> xs[nth(k)]]

----------------------------------------------------------------------------
(* extract_question_candidates                                             *)

MIN_LINE_LEN == 25

CUE_VERBS == {Chars("define"), Chars("explain"), Chars("describe"),
              Chars("differentiate"), Chars("compare")}

\* re.sub(r"([a-z])([A-Z])", r"\1 \2", line)
RECURSIVE sub_camel(_)
sub_camel(s) ==
    IF Len(s) < 2 THEN s
    ELSE IF s[1] \in AsciiLower /\ s[2] \in AsciiUpper
         THEN <<s[1], " ">> \o sub_camel(Tail(s))
         ELSE <<s[1]>> \o sub_camel(Tail(s))

\* re.sub(r"[bullet, hyphen, en dash, em dash]", " ", line)
sub_bullets(s) ==
    [i \in 1..Len(s) |-> IF s[i] \in {BULLET, "-", EN_DASH, EM_DASH} THEN " " ELSE s[i]]

\* re.sub(r"\s", " ", line): each whitespace character replaced, runs kept
sub_spaces_each(s) == [i \in 1..Len(s) |-> IF s[i] \in Whitespace THEN " " ELSE s[i]]

\* re.sub(r"\s+", " ", line)
RECURSIVE sub_spaces(_)
sub_spaces(s) ==
    IF s = <<>> THEN <<>>
    ELSE IF s[1] \in Whitespace
         THEN LET solid == {i \in 1..Len(s) : s[i] \notin Whitespace}
              IN  IF solid = {} THEN <<" ">>
                  ELSE <<" ">> \o sub_spaces(SubSeq(s, MinOf(solid), Len(s)))
         ELSE <<s[1]>> \o sub_spaces(Tail(s))

\* the test of lines 48-50
is_question_like(line) ==
    contains(line, "?") \/ \E v \in CUE_VERBS : startswith(lower(line), v)

\* lines 51-55: the three substitutions, then strip
normalize(line) == strip(sub_spaces(sub_bullets(sub_camel(line))))

\* the loop of lines 43-55 over the lines left, questions being the list so far
RECURSIVE scan_lines(_, _)
scan_lines(lines, questions) ==
    IF lines = <<>> THEN questions
    ELSE LET line == strip(lines[1])
         IN  IF Len(line) < MIN_LINE_LEN
             THEN scan_lines(Tail(lines), questions)
             ELSE IF is_question_like(line)
                  THEN scan_lines(Tail(lines), Append(questions, normalize(line)))
                  ELSE scan_lines(Tail(lines), questions)

\* line 57 returning questions as they are
extract_question_candidates_keeping_all(t) == scan_lines(split_on(t, "\n"), <<>>)

extract_question_candidates(t) == dedup(scan_lines(split_on(t, "\n"), <<>>))

----------------------------------------------------------------------------
(* force_questions                                                         *)

topics == <<
    Chars("database management system"),
    Chars("data model"),
    Chars("entity relationship model"),
    Chars("normalization"),
    Chars("transaction management"),
    Chars("concurrency control"),
    Chars("database architecture"),
    Chars("relational model"),
    Chars("indexing"),
    Chars("sql"),
    Chars("data independence"),
    Chars("acid properties") >>

templates == <<
    Chars("Define {}?"),
    Chars("Explain {}."),
    Chars("Describe {} with an example."),
    Chars("Differentiate {} and relational databases."),
    Chars("Explain the importance of {}.") >>

MAX_FALLBACK == 12

FALLBACK_FLOOR == 10

\* t.format(arg), t holding one "{}" field
format(t, arg) ==
    LET k == MinOf({i \in 1..(Len(t) - 1) : t[i] = "{" /\ t[i + 1] = "}"})
    IN  SubSeq(t, 1, k - 1) \o arg \o SubSeq(t, k + 2, Len(t))

\* the loops of lines 139-148, standing at topic ti and template tj
RECURSIVE force_loop(_, _, _, _)
force_loop(ti, tj, final, used) ==
    IF ti > Len(topics)
    THEN SubSeq(final, 1, IF Len(final) < FALLBACK_FLOOR THEN Len(final) ELSE FALLBACK_FLOOR)
    ELSE IF tj > Len(templates)
    THEN force_loop(ti + 1, 1, final, used)
    ELSE LET q == format(templates[tj], topics[ti])
             final2 == IF q \notin used THEN Append(final, q) ELSE final
         IN  IF Len(final2) >= MAX_FALLBACK
             THEN final2
             ELSE force_loop(ti, tj + 1, final2, used \cup {q})

\* the loops of lines 139-140 nested the other way round
force_questions_template_major(seed) ==
    [k \in 1..MAX_FALLBACK |->
        format(templates[((k - 1) \div Len(topics)) + 1], topics[((k - 1) % Len(topics)) + 1])]

force_questions(seed) == force_loop(1, 1, <<>>, {})

----------------------------------------------------------------------------
(* ai_clean_questions                                                      *)

MIN_QUESTIONS == 5

SEED_LIMIT == 10

MIN_WORDS == 6

MAX_WORDS == 18

NoExc == "none"

\* JSON values, as r.json() returns them
JList(items) == [type |-> "list", items |-> items]

JObject(fields) == [type |-> "dict", fields |-> fields]

JStr(s) == [type |-> "str", s |-> s]

JNull == [type |-> "NoneType"]

JNum == [type |-> "int"]

\* requests.post raised exc
PostRaises(exc) == [post |-> exc, data |-> JNull]

\* requests.post returned and r.json() raised
JsonRaises == [post |-> "ok", data |-> [type |-> "JSONDecodeError"]]

\* requests.post returned and r.json() returned data
Payload(data) == [post |-> "ok", data |-> data]

GENERATED_TEXT == Chars("generated_text")

\* p in s, for two strings
has_substring(s, p) ==
    \E i \in 1..(Len(s) - Len(p) + 1) : SubSeq(s, i, i + Len(p) - 1) = p

\* re.split(r"\n|\?\s*", raw)
RECURSIVE re_split(_)
re_split(raw) ==
    LET hits == {i \in 1..Len(raw) : raw[i] = "\n" \/ raw[i] = "?"}
    IN  IF hits = {}
        THEN <<raw>>
        ELSE LET k == MinOf(hits)
                 solid == {i \in (k + 1)..Len(raw) : raw[i] \notin Whitespace}
                 next == IF raw[k] = "\n" THEN k + 1
                         ELSE IF solid = {} THEN Len(raw) + 1 ELSE MinOf(solid)
             IN  <<SubSeq(raw, 1, k - 1)>> \o re_split(SubSeq(raw, next, Len(raw)))

\* the loop of lines 92-98 with line 94 as 6 <= len(q.split())
RECURSIVE clean_lines_no_upper(_, _)
clean_lines_no_upper(lines, final) ==
    IF lines = <<>> THEN final
    ELSE LET q == strip(lines[1])
             n == Len(split_words(q))
         IN  IF MIN_WORDS <= n
             THEN LET c == capitalize(q)
                      e == IF endswith(c, <<"?">>) THEN c ELSE c \o <<"?">>
                  IN  clean_lines_no_upper(Tail(lines), Append(final, e))
             ELSE clean_lines_no_upper(Tail(lines), final)

\* the loop of lines 92-98 with line 94 as len(q.split()) <= 18
RECURSIVE clean_lines_no_lower(_, _)
clean_lines_no_lower(lines, final) ==
    IF lines = <<>> THEN final
    ELSE LET q == strip(lines[1])
             n == Len(split_words(q))
         IN  IF n <= MAX_WORDS
             THEN LET c == capitalize(q)
                      e == IF endswith(c, <<"?">>) THEN c ELSE c \o <<"?">>
                  IN  clean_lines_no_lower(Tail(lines), Append(final, e))
             ELSE clean_lines_no_lower(Tail(lines), final)

\* the loop of lines 92-98
RECURSIVE clean_lines(_, _)
clean_lines(lines, final) ==
    IF lines = <<>> THEN final
    ELSE LET q == strip(lines[1])
             n == Len(split_words(q))
         IN  IF MIN_WORDS <= n /\ n <= MAX_WORDS
             THEN LET c == capitalize(q)
                      e == IF endswith(c, <<"?">>) THEN c ELSE c \o <<"?">>
                  IN  clean_lines(Tail(lines), Append(final, e))
             ELSE clean_lines(Tail(lines), final)

\* lines 89-100: final, as line 100 leaves it
refined(raw) == dedup(clean_lines(re_split(raw), <<>>))

Returns(value) == [kind |-> "return", exc |-> NoExc, value |-> value]

Raises(exc) == [kind |-> "raise", exc |-> exc, value |-> <<>>]

FallsThrough == [kind |-> "pass", exc |-> NoExc, value |-> <<>>]

\* line 102 with > for >=
enough_strictly_more(final) == Len(final) > MIN_QUESTIONS

\* line 102
enough(final) == Len(final) >= MIN_QUESTIONS

\* lines 87-103, data[0] holding generated_text
use_generated_text(gt) ==
    IF gt.type # "str"
    THEN Raises("TypeError")
    ELSE LET final == refined(gt.s)
         IN  IF enough(final) THEN Returns(final) ELSE FallsThrough

\* lines 86-103: "generated_text" in data[0], then data[0]["generated_text"]
use_first(first) ==
    CASE first.type = "dict" ->
            IF "generated_text" \in DOMAIN first.fields
            THEN use_generated_text(first.fields["generated_text"])
            ELSE FallsThrough
      [] first.type = "str" ->
            IF has_substring(first.s, GENERATED_TEXT) THEN Raises("TypeError") ELSE FallsThrough
      [] first.type = "list" ->
            IF JStr(GENERATED_TEXT) \in Range(first.items) THEN Raises("TypeError") ELSE FallsThrough
      [] OTHER -> Raises("TypeError")

\* the body of the try, lines 78-103
try_body(resp) ==
    IF resp.post # "ok" THEN Raises(resp.post)
    ELSE IF resp.data.type = "JSONDecodeError" THEN Raises("JSONDecodeError")
    ELSE IF resp.data.type # "list" THEN FallsThrough
    ELSE IF resp.data.items = <<>> THEN Raises("IndexError")
    ELSE use_first(resp.data.items[1])

\* line 105 as except requests.RequestException
caught_transport_only(exc) == exc \in {"ConnectionError", "Timeout"}

\* line 105: except Exception
caught(exc) == TRUE

\* lines 60-108; the result is what the caller sees: an exception or a list
ai_clean_questions(seed_questions, resp) ==
    LET seed == join(<<"\n">>, SubSeq(seed_questions, 1,
                        IF Len(seed_questions) < SEED_LIMIT THEN Len(seed_questions) ELSE SEED_LIMIT))
        body == try_body(resp)
    IN  IF body.kind = "return" THEN [raised |-> NoExc, value |-> body.value]
        ELSE IF body.kind = "raise" /\ ~caught(body.exc) THEN [raised |-> body.exc, value |-> <<>>]
        ELSE [raised |-> NoExc, value |-> force_questions(seed)]

----------------------------------------------------------------------------
(* extract_keywords                                                        *)

TOP_KEYWORDS == 10

MIN_KEYWORD_LEN == 4

STOP_WORDS == {
    Chars("define"), Chars("explain"), Chars("describe"), Chars("what"), Chars("why"),
    Chars("how"), Chars("importance"), Chars("advantages"), Chars("various"),
    Chars("related"), Chars("difference"), Chars("differentiate"), Chars("model"),
    Chars("models"), Chars("concept"), Chars("used"), Chars("between") }

Letters == AsciiLower \cup AsciiUpper

\* re.findall(r"[a-zA-Z]{4,}", s)
RECURSIVE findall_words(_)
findall_words(s) ==
    LET alpha == {i \in 1..Len(s) : s[i] \in Letters}
    IN  IF alpha = {}
        THEN <<>>
        ELSE LET a == MinOf(alpha)
                 breaks == {i \in a..Len(s) : s[i] \notin Letters}
                 b == IF breaks = {} THEN Len(s) + 1 ELSE MinOf(breaks)
                 run == SubSeq(s, a, b - 1)
             IN  (IF Len(run) >= MIN_KEYWORD_LEN THEN <<run>> ELSE <<>>)
                 \o findall_words(SubSeq(s, b, Len(s)))

\* the loops of lines 153-156
RECURSIVE collect_words(_, _)
collect_words(questions, words) ==
    IF questions = <<>> THEN words
    ELSE collect_words(Tail(questions),
            words \o SelectSeq(findall_words(lower(questions[1])), LAMBDA w : w \notin STOP_WORDS))

\* Counter(words).items(): each word with its count, in first-insertion order
Counter(words) ==
    LET keys == dedup(words)
    IN  [i \in 1..Len(keys) |->
            <<keys[i], Cardinality({j \in 1..Len(words) : words[j] = keys[i]})>>]

\* most_common taking, among equal counts, the word inserted last
RECURSIVE most_common_last_first(_, _)
most_common_last_first(items, n) ==
    IF n = 0 \/ items = <<>> THEN <<>>
    ELSE LET top == MaxOf({items[i][2] : i \in 1..Len(items)})
             k == MaxOf({i \in 1..Len(items) : items[i][2] = top})
             rest == [i \in 1..(Len(items) - 1) |-> IF i < k THEN items[i] ELSE items[i + 1]]
         IN  <<items[k]>> \o most_common_last_first(rest, n - 1)

\* Counter.most_common(n): the n largest counts, equal counts in insertion order
RECURSIVE most_common(_, _)
most_common(items, n) ==
    IF n = 0 \/ items = <<>> THEN <<>>
    ELSE LET top == MaxOf({items[i][2] : i \in 1..Len(items)})
             k == MinOf({i \in 1..Len(items) : items[i][2] = top})
             rest == [i \in 1..(Len(items) - 1) |-> IF i < k THEN items[i] ELSE items[i + 1]]
         IN  <<items[k]>> \o most_common(rest, n - 1)

extract_keywords(questions) == most_common(Counter(collect_words(questions, <<>>)), TOP_KEYWORDS)

----------------------------------------------------------------------------
(* The values of the variables a specification does not use.               *)

NoFile == [exists |-> FALSE, parses |-> FALSE, pages |-> <<>>]

UPLOAD_FOLDER == "uploads"

PdfNames == <<"a.pdf", "b.pdf">>

OtherNames == <<"notes.txt">>

\* os.path.join(UPLOAD_FOLDER, f)
path_join(folder, f) == <<folder, f>>

Paths == {path_join(UPLOAD_FOLDER, n) : n \in Range(PdfNames) \cup Range(OtherNames)}

EmptyDir == [p \in Paths |-> NoFile]

WebIdle ==
    /\ fs = EmptyDir
    /\ selected = <<>>
    /\ idx = 0
    /\ http = "none"
    /\ cpc = "idle"
    /\ clist = <<>>
    /\ cidx = 0
    /\ startFiles = {}
    /\ removed = {}

webVars == <<fs, selected, idx, http, cpc, clist, cidx, startFiles, removed>>

NoResponse == PostRaises("none")

----------------------------------------------------------------------------
(* SpecScan: extract_question_candidates on a text, then on its own output *)

MaxLines == 2

LineHeads == {
    Chars("Define "),
    Chars("deFine "),
    Chars("What is "),
    <<" ", BULLET, " ">> \o Chars("Compare-") }

LineBodies == {
    Chars("normalization and its types"),
    Chars("normalization  and") \o <<EN_DASH>> \o Chars("its types"),
    Chars("a   b   c   d   e   f") }

LineTails == { <<>>, <<"\t">>, Chars(" ?  ") }

ScanLines == {h \o b \o t : h \in LineHeads, b \in LineBodies, t \in LineTails}

ScanTexts ==
    {join(<<"\n">>, ls) : ls \in UNION {[1..n -> ScanLines] : n \in 0..MaxLines}}

InitScan ==
    /\ text \in ScanTexts
    /\ pc = "scan"
    /\ candidates = <<>>
    /\ rescan = <<>>
    /\ response = NoResponse
    /\ final_questions = <<>>
    /\ raised = NoExc
    /\ keywords = <<>>
    /\ WebIdle

Scan ==
    /\ pc = "scan"
    /\ candidates' = extract_question_candidates(text)
    /\ pc' = "rescan"
    /\ UNCHANGED <<text, rescan, response, final_questions, raised, keywords, webVars>>

Rescan ==
    /\ pc = "rescan"
    /\ rescan' = extract_question_candidates(join(<<"\n">>, candidates))
    /\ pc' = "done"
    /\ UNCHANGED <<text, candidates, response, final_questions, raised, keywords, webVars>>

NextScan == Scan \/ Rescan

SpecScan == InitScan /\ [][NextScan]_vars

----------------------------------------------------------------------------
(* Claims about extract_question_candidates, under SpecScan                *)

NoDuplicates(xs) == \A i, j \in 1..Len(xs) : xs[i] = xs[j] => i = j

\* the candidates of the first run that a second run keeps
StillQuestionLike(c) == Len(c) >= MIN_LINE_LEN /\ is_question_like(c)

\* C6, as stated: the result holds no two equal strings, and the scanner run
\* again on its own output (joined by newlines) returns the same list.
C6_RescanIsIdentity ==
    pc = "done" => NoDuplicates(candidates) /\ rescan = candidates

\* C6, amended: the result holds no two equal strings, and the scanner run
\* again on its own output returns, unchanged and in the same order, exactly
\* the candidates that are still at least 25 characters long and still hold
\* '?' or start with a cue verb; the others are dropped.
C6_RescanIsSublist ==
    /\ pc \in {"rescan", "done"} => NoDuplicates(candidates)
    /\ pc = "done" => rescan = SelectSeq(candidates, StillQuestionLike)

\* two candidates, of which the second run keeps one and drops the other
C6_Witness ==
    /\ pc = "done"
    /\ Len(candidates) = 2
    /\ Len(rescan) = 1

\* v is a prefix of line, letter case ignored
StartsWithIgnoringCase(line, v) ==
    /\ Len(line) >= Len(v)
    /\ \A k \in 1..Len(v) : line[k] = v[k] \/ line[k] = UpperTable[v[k]]

\* a raw line that qualifies: 25 characters or more once trimmed, and
\* holding '?' or starting with one of the five verbs
Qualifies(trimmed) ==
    /\ Len(trimmed) >= 25
    /\ \/ \E i \in 1..Len(trimmed) : trimmed[i] = "?"
       \/ \E v \in {Chars("define"), Chars("explain"), Chars("describe"),
                    Chars("differentiate"), Chars("compare")} :
             StartsWithIgnoringCase(trimmed, v)

\* C7: each candidate comes from a line whose trimmed length before
\* normalization is at least 25 and which holds '?' or starts, case ignored,
\* with define, explain, describe, differentiate or compare; and the
\* candidate holds no run of two or more whitespace characters.
C7_CandidatesQualify ==
    pc \in {"rescan", "done"} =>
        \A i \in 1..Len(candidates) :
            LET c == candidates[i]
            IN  /\ \E l \in Range(split_on(text, "\n")) :
                      Qualifies(strip(l)) /\ c = normalize(strip(l))
                /\ \A k \in 1..(Len(c) - 1) :
                      ~(c[k] \in Whitespace /\ c[k + 1] \in Whitespace)

\* two candidates, one from a cue-verb line without '?', one from a line
\* whose raw form held a whitespace run
C7_Witness ==
    /\ pc = "done"
    /\ Len(candidates) = 2
    /\ \E i \in 1..2 : ~contains(candidates[i], "?")
    /\ \E l \in Range(split_on(text, "\n")) :
          /\ Qualifies(strip(l))
          /\ \E k \in 1..(Len(strip(l)) - 1) : strip(l)[k] = " " /\ strip(l)[k + 1] = " "

----------------------------------------------------------------------------
(* SpecRefine: ai_clean_questions on a candidate sequence and an outcome   *)
(* of the rewrite call.                                                    *)

MaxTail == 2

\* candidate sequences: none, and one longer than the slice of line 61
SeedLists == { <<>>, [i \in 1..(SEED_LIMIT + 1) |-> Chars("What is ") \o <<LowerLetters[i], "?">>] }

\* the outcomes line 77's try treats as no output
FailedResponses == {
    PostRaises("ConnectionError"),
    PostRaises("Timeout"),
    JsonRaises,
    Payload(JObject([error |-> JStr(Chars("loading"))])),
    Payload(JNull),
    Payload(JList(<<>>)),
    Payload(JList(<<JObject([text |-> JStr(Chars("a b c d e f"))])>>)),
    Payload(JList(<<JNum>>)),
    Payload(JList(<<JStr(Chars("no generated_text here"))>>)),
    Payload(JList(<<JObject([generated_text |-> JNull])>>)),
    Payload(JList(<<JObject([generated_text |-> JList(<<JStr(Chars("a b c d e f"))>>)])>>)) }

\* k distinct six-word lines
BaseText(k) ==
    join(<<>>, [i \in 1..k |-> Chars("q q q q q ") \o <<LowerLetters[i], "\n">>])

BaseSizes == {0, 4, 5, 13}

Fragments == {
    Chars("Q Q Q Q Q A"),
    Chars(" \n x y z  u v\tw "),
    Chars("a b c d e"),
    Chars("1 2 3 4 5 6 7 8 9 10 11 12 13 14 15 16 17 18"),
    Chars("1 2 3 4 5 6 7 8 9 10 11 12 13 14 15 16 17 18 19") }

Separators == { <<"\n">>, <<"?">> }

TailItems == {f \o p : f \in Fragments, p \in Separators}

TailTexts == {join(<<>>, ts) : ts \in UNION {[1..n -> TailItems] : n \in 0..MaxTail}}

ScenarioD == Chars("Explain ACID properties in detail\nWhat is normalization\n")

GeneratedTexts == {ScenarioD} \cup {BaseText(k) \o t : k \in BaseSizes, t \in TailTexts}

ValidPayload(raw) == Payload(JList(<<JObject([generated_text |-> JStr(raw)])>>))

ValidResponses == {ValidPayload(raw) : raw \in GeneratedTexts}

InitRefine ==
    /\ candidates \in SeedLists
    /\ response \in FailedResponses \cup ValidResponses
    /\ pc = "clean"
    /\ text = <<>>
    /\ rescan = <<>>
    /\ final_questions = <<>>
    /\ raised = NoExc
    /\ keywords = <<>>
    /\ WebIdle

\* a caller's final_questions = ai_clean_questions(candidates)
Clean ==
    /\ pc = "clean"
    /\ LET r == ai_clean_questions(candidates, response)
       IN  /\ final_questions' = r.value
           /\ raised' = r.raised
    /\ pc' = "done"
    /\ UNCHANGED <<text, candidates, rescan, response, keywords, webVars>>

NextRefine == Clean

SpecRefine == InitRefine /\ [][NextRefine]_vars

----------------------------------------------------------------------------
(* SpecFallback: force_questions on an argument                            *)

InitFallback ==
    /\ text \in ScanTexts
    /\ pc = "force"
    /\ candidates = <<>>
    /\ rescan = <<>>
    /\ response = NoResponse
    /\ final_questions = <<>>
    /\ raised = NoExc
    /\ keywords = <<>>
    /\ WebIdle

\* a caller's final_questions = force_questions(text)
Force ==
    /\ pc = "force"
    /\ final_questions' = force_questions(text)
    /\ pc' = "forced"
    /\ UNCHANGED <<text, candidates, rescan, response, raised, keywords, webVars>>

NextFallback == Force

SpecFallback == InitFallback /\ [][NextFallback]_vars

----------------------------------------------------------------------------
(* Claims about ai_clean_questions, under SpecRefine, and about            *)
(* force_questions, under SpecFallback                                     *)

\* the seed of line 61, which line 108 hands to force_questions
SeedOf(seed_questions) ==
    join(<<"\n">>, [i \in 1..(IF Len(seed_questions) < 10 THEN Len(seed_questions) ELSE 10)
                        |-> seed_questions[i]])

\* a structurally valid response: a non-empty list whose first element
\* carries a generated_text that is a string
StructurallyValid(resp) ==
    /\ resp.post = "ok"
    /\ resp.data.type = "list"
    /\ resp.data.items # <<>>
    /\ resp.data.items[1].type = "dict"
    /\ "generated_text" \in DOMAIN resp.data.items[1].fields
    /\ resp.data.items[1].fields["generated_text"].type = "str"

\* the generated_text of a structurally valid response
RawOf(resp) == resp.data.items[1].fields["generated_text"].s

\* C1: when the rewrite call fails in any way (transport exception, timeout,
\* a body that is not JSON, JSON that is not a list, an empty list, a first
\* element without generated_text, a generated_text that cannot be split),
\* ai_clean_questions raises nothing and returns exactly what
\* force_questions returns for the same seed.
C1_FailureGivesFallback ==
    (pc = "done" /\ ~StructurallyValid(response)) =>
        /\ raised = NoExc
        /\ final_questions = force_questions(SeedOf(candidates))

\* an empty list came back (data[0] raises IndexError) and the fallback set
\* was returned for a non-empty candidate sequence
C1_Witness ==
    /\ pc = "done"
    /\ response = Payload(JList(<<>>))
    /\ candidates # <<>>
    /\ raised = NoExc
    /\ Len(final_questions) = 12

\* C2: on a structurally valid response the result is the filtered,
\* order-preserving deduplicated fragment list itself if and only if that
\* list has at least 5 elements, whatever its size; with fewer than 5 the
\* result is the force_questions output and holds none of the fragments.
C2_ThresholdDecides ==
    (pc = "done" /\ StructurallyValid(response)) =>
        LET final == refined(RawOf(response))
            fallback == force_questions(SeedOf(candidates))
        IN  /\ raised = NoExc
            /\ Len(final) >= 5 => final_questions = final
            /\ Len(final) < 5 =>
                  /\ final_questions = fallback
                  /\ final_questions # final
                  /\ \A i \in 1..Len(final) : final[i] \notin Range(final_questions)

\* more fragments than the fallback set ever has, all returned
C2_Witness ==
    /\ pc = "done"
    /\ StructurallyValid(response)
    /\ Len(final_questions) > 12
    /\ final_questions = refined(RawOf(response))

\* the number of whitespace-separated words of q
WordCount(q) ==
    Cardinality({i \in 1..Len(q) :
        q[i] \notin Whitespace /\ (i = 1 \/ q[i - 1] \in Whitespace)})

\* a RefinedQuestion: 6 to 18 words, ending with exactly one '?'
IsRefinedQuestion(q) ==
    /\ 6 <= WordCount(q) /\ WordCount(q) <= 18
    /\ Len(q) >= 2
    /\ q[Len(q)] = "?"
    /\ q[Len(q) - 1] # "?"

\* C3, as stated: every string ai_clean_questions returns, on the rewrite
\* path or the fallback path, has 6 to 18 words and ends with exactly one '?'.
C3_AllRefined ==
    pc = "done" => \A i \in 1..Len(final_questions) : IsRefinedQuestion(final_questions[i])

\* C3, amended: every string ai_clean_questions returns on the rewrite path
\* (a valid response with at least 5 distinct kept fragments) has 6 to 18
\* words and ends with exactly one '?'.
C3_RewritePathRefined ==
    (pc = "done" /\ StructurallyValid(response)
                 /\ Len(refined(RawOf(response))) >= 5) =>
        \A i \in 1..Len(final_questions) : IsRefinedQuestion(final_questions[i])

\* the rewrite path taken, with a fragment of exactly 18 words returned and
\* one of 19 words in the generated text
C3_Witness ==
    /\ pc = "done"
    /\ StructurallyValid(response)
    /\ final_questions = refined(RawOf(response))
    /\ Len(final_questions) >= 5
    /\ \E i \in 1..Len(final_questions) : WordCount(final_questions[i]) = 18
    /\ \E l \in Range(re_split(RawOf(response))) : WordCount(l) = 19

\* the 60 strings of topics x templates, topic-major and template-minor
CrossProduct ==
    [k \in 1..(Len(topics) * Len(templates)) |->
        format(templates[((k - 1) % Len(templates)) + 1],
               topics[((k - 1) \div Len(templates)) + 1])]

\* the shortest prefix of the cross product that holds 12 distinct strings
PrefixOfTwelve ==
    SubSeq(CrossProduct, 1,
           MinOf({n \in 1..Len(CrossProduct) :
                     Cardinality(Range(SubSeq(CrossProduct, 1, n))) = 12}))

\* C5: force_questions returns the same ordered list for any two arguments;
\* the list has 10 to 12 elements, no duplicates, and is the prefix of the
\* topic-major, template-minor cross product at which the 12th unique
\* question is reached.
C5_FallbackIsFixedPrefix ==
    pc = "forced" =>
        /\ final_questions = PrefixOfTwelve
        /\ 10 <= Len(final_questions) /\ Len(final_questions) <= 12
        /\ NoDuplicates(final_questions)
        /\ \A sd \in SeedLists : force_questions(SeedOf(sd)) = final_questions

\* force_questions called on a non-empty argument
C5_Witness ==
    /\ pc = "forced"
    /\ text # <<>>
    /\ Len(final_questions) = 12
    /\ final_questions[12] = Chars("Explain entity relationship model.")

\* the fragments of Scenario D that are not empty
ScenarioDFragments ==
    SelectSeq(re_split(ScenarioD), LAMBDA l : strip(l) # <<>>)

\* C9, as stated: on Scenario D's generated_text the splitting and the
\* word-count filter keep 2 fragments, and the result is the fallback set.
C9_TwoFragmentsKept ==
    (pc = "done" /\ response = ValidPayload(ScenarioD)) =>
        /\ Len(clean_lines(re_split(ScenarioD), <<>>)) = 2
        /\ final_questions = force_questions(SeedOf(candidates))

\* C9, amended: on Scenario D's generated_text the splitting yields 2
\* non-empty fragments, of 5 and 3 words; the word-count filter keeps none
\* of them, and because 0 is below the threshold of 5 the result is the
\* fallback set rather than those fragments.
C9_NoFragmentKept ==
    (pc = "done" /\ response = ValidPayload(ScenarioD)) =>
        /\ Len(ScenarioDFragments) = 2
        /\ WordCount(ScenarioDFragments[1]) = 5
        /\ WordCount(ScenarioDFragments[2]) = 3
        /\ clean_lines(re_split(ScenarioD), <<>>) = <<>>
        /\ final_questions = force_questions(SeedOf(candidates))
        /\ \A i \in 1..Len(final_questions) :
              ~startswith(final_questions[i], Chars("Explain acid"))
              /\ ~startswith(final_questions[i], Chars("What is"))

\* Scenario D's response answered with the fallback set
C9_Witness ==
    /\ pc = "done"
    /\ response = ValidPayload(ScenarioD)
    /\ Len(final_questions) = 12
    /\ final_questions[1] = Chars("Define database management system?")

----------------------------------------------------------------------------
(* SpecKeywords: extract_keywords on a question list                       *)

MaxKwTail == 2

KwQuestions == {
    Chars("Keys keys KEYS of sql?"),
    Chars("What is data2base index-ing?"),
    Chars("Define the entity model used?"),
    Chars("List joins, views and Triggers with keys."),
    <<>>,
    Chars("alpha beta gamma delta epsilon zeta theta iota kappa lambda sigma omega"),
    Chars("omega sigma system") }

\* the question lists: nothing or the fallback set, then up to MaxKwTail more
KwInputs ==
    {b \o t : b \in {<<>>, force_questions(<<>>)},
              t \in UNION {[1..n -> KwQuestions] : n \in 0..MaxKwTail}}

InitKeywords ==
    /\ final_questions \in KwInputs
    /\ pc = "keywords"
    /\ text = <<>>
    /\ candidates = <<>>
    /\ rescan = <<>>
    /\ response = NoResponse
    /\ raised = NoExc
    /\ keywords = <<>>
    /\ WebIdle

\* a caller's keywords = extract_keywords(final_questions)
Tally ==
    /\ pc = "keywords"
    /\ keywords' = extract_keywords(final_questions)
    /\ pc' = "done"
    /\ UNCHANGED <<text, candidates, rescan, response, final_questions, raised, webVars>>

NextKeywords == Tally

SpecKeywords == InitKeywords /\ [][NextKeywords]_vars

----------------------------------------------------------------------------
(* Claims about extract_keywords, under SpecKeywords                       *)

IsLetter(c) == c \in AsciiLower \/ c \in AsciiUpper

\* a maximal run of letters of q starts at p
RunStartsAt(q, p) == IsLetter(q[p]) /\ (p = 1 \/ ~IsLetter(q[p - 1]))

\* the maximal run of letters of q that starts at p is w, letter case ignored
RunIs(q, p, w) ==
    /\ RunStartsAt(q, p)
    /\ p + Len(w) - 1 <= Len(q)
    /\ \A k \in 1..Len(w) : q[p + k - 1] = w[k] \/ q[p + k - 1] = UpperTable[w[k]]
    /\ (p + Len(w) <= Len(q) => ~IsLetter(q[p + Len(w)]))

\* where w occurs in the questions: <<question, position>>
OccurrencesOf(w, qs) ==
    UNION {{<<i, p>> : p \in {x \in 1..Len(qs[i]) : RunIs(qs[i], x, w)}} : i \in 1..Len(qs)}

\* the maximal run of letters of q that starts at p, in lower case
RunFrom(q, p) ==
    lower(SubSeq(q, p, MaxOf({e \in p..Len(q) : \A k \in p..e : IsLetter(q[k])})))

\* the words that count: runs of 4 letters or more that are no stop words
EligibleWords(qs) ==
    {w \in UNION {{RunFrom(qs[i], p) : p \in {x \in 1..Len(qs[i]) : RunStartsAt(qs[i], x)}}
                    : i \in 1..Len(qs)} :
        Len(w) >= 4 /\ w \notin STOP_WORDS}

PairBefore(a, b) == a[1] < b[1] \/ (a[1] = b[1] /\ a[2] < b[2])

FirstOf(O) == CHOOSE a \in O : \A b \in O : a = b \/ PairBefore(a, b)

\* C8: extract_keywords returns at most 10 (word, count) pairs; no word is a
\* stop word; every word is a lowercase alphabetic run of at least 4
\* letters; every count is at least 1 and is the word's number of
\* occurrences across all questions; counts do not increase along the list;
\* words with equal counts stand in the order of their first occurrence.  No
\* word left out occurs more often than a word of the list.
C8_KeywordTally ==
    pc = "done" =>
        LET words == [i \in 1..Len(keywords) |-> keywords[i][1]]
            count == [i \in 1..Len(keywords) |-> keywords[i][2]]
            qs == final_questions
        IN  /\ Len(keywords) <= 10
            /\ \A i \in 1..Len(keywords) :
                  /\ words[i] \notin STOP_WORDS
                  /\ Len(words[i]) >= 4
                  /\ \A k \in 1..Len(words[i]) : words[i][k] \in AsciiLower
                  /\ count[i] >= 1
                  /\ count[i] = Cardinality(OccurrencesOf(words[i], qs))
            /\ \A i, j \in 1..Len(keywords) :
                  i < j =>
                      /\ count[i] >= count[j]
                      /\ words[i] # words[j]
                      /\ count[i] = count[j] =>
                            PairBefore(FirstOf(OccurrencesOf(words[i], qs)),
                                       FirstOf(OccurrencesOf(words[j], qs)))
            /\ \A w \in EligibleWords(qs) \ Range(words) :
                  /\ Len(keywords) = 10
                  /\ Cardinality(OccurrencesOf(w, qs)) <= count[10]

\* ten keywords returned, two of them with equal counts, and an eleventh
\* word left out
C8_Witness ==
    /\ pc = "done"
    /\ Len(keywords) = 10
    /\ \E i \in 1..9 : keywords[i][2] = keywords[i + 1][2]
    /\ keywords[1][2] > keywords[10][2]
    /\ EligibleWords(final_questions) \ {keywords[i][1] : i \in 1..10} # {}

----------------------------------------------------------------------------
(* Spec: the routes.  One analyze request and one clear request run at a   *)
(* time, interleaved with each other and with uploads at every access to   *)
(* the upload directory; a finished request makes room for the next.       *)

MaxSelected == 2

\* a stored document: the text of each page, None as <<>>; or bytes that
\* pdfplumber cannot parse
Pdf(pages) == [exists |-> TRUE, parses |-> TRUE, pages |-> pages]

Corrupt == [exists |-> TRUE, parses |-> FALSE, pages |-> <<>>]

Documents == {
    Pdf(<<Chars("Unit 1\nDefine normalization and its types"), <<>>,
          Chars("What is a primary-key in a table?")>>),
    Corrupt }

\* the names a client may send; secure_filename leaves the safe ones alone
UploadNames == {"a.pdf", "../b.pdf", "notes.txt"}

secure_filename(n) == IF n = "../b.pdf" THEN "b.pdf" ELSE n

\* open(path): the document, or NoFile
file_at(dir, path) == IF path \in DOMAIN dir THEN dir[path] ELSE NoFile

\* os.listdir(UPLOAD_FOLDER), in sorted order
NamesInOrder == PdfNames \o OtherNames

\* get_uploaded_files()
get_uploaded_files(dir) ==
    SelectSeq(NamesInOrder,
              LAMBDA n : /\ file_at(dir, path_join(UPLOAD_FOLDER, n)) # NoFile
                         /\ endswith(Chars(n), Chars(".pdf")))

\* the loop of lines 33-36 over the pages left
RECURSIVE page_texts(_, _)
page_texts(pages, t) ==
    IF pages = <<>> THEN t
    ELSE IF pages[1] # <<>>
         THEN page_texts(Tail(pages), t \o pages[1] \o <<"\n">>)
         ELSE page_texts(Tail(pages), t)

\* extract_text_from_pdf(path): the text, or the exception pdfplumber.open raises
extract_text_from_pdf(dir, path) ==
    LET doc == file_at(dir, path)
    IN  IF doc = NoFile THEN [exc |-> "FileNotFoundError", text |-> <<>>]
        ELSE IF ~doc.parses THEN [exc |-> "PDFSyntaxError", text |-> <<>>]
        ELSE [exc |-> NoExc, text |-> page_texts(doc.pages, <<>>)]

\* line 186 without the folder
analyze_path_bare(f) == path_join(".", f)

\* line 186
analyze_path(f) == path_join(UPLOAD_FOLDER, f)

\* the outcomes of the rewrite call an analyze request may meet
WebResponses == { PostRaises("Timeout"), ValidPayload(BaseText(MIN_QUESTIONS)) }

Init ==
    /\ pc = "idle"
    /\ text = <<>>
    /\ candidates = <<>>
    /\ rescan = <<>>
    /\ response = NoResponse
    /\ final_questions = <<>>
    /\ raised = NoExc
    /\ keywords = <<>>
    /\ WebIdle

\* POST /upload with one file, lines 167-174
Upload(n, doc) ==
    /\ IF endswith(Chars(n), Chars(".pdf"))
       THEN fs' = [fs EXCEPT ![path_join(UPLOAD_FOLDER, secure_filename(n))] = doc]
       ELSE fs' = fs
    /\ UNCHANGED <<pc, text, candidates, rescan, response, final_questions, raised,
                   keywords, selected, idx, http, cpc, clist, cidx, startFiles, removed>>

\* POST /analyze, lines 180-184
AnalyzeStart(sel) ==
    /\ pc = "idle"
    /\ selected' = sel
    /\ startFiles' = Range(get_uploaded_files(fs))
    /\ removed' = {}
    /\ candidates' = <<>>
    /\ IF sel = <<>>
       THEN /\ http' = "redirect upload"
            /\ pc' = "done"
            /\ idx' = 0
       ELSE /\ http' = "none"
            /\ pc' = "loop"
            /\ idx' = 1
    /\ UNCHANGED <<fs, text, rescan, response, final_questions, raised, keywords,
                   cpc, clist, cidx>>

\* one turn of the loop of lines 185-191; an exception leaves the handler
AnalyzeRead ==
    /\ pc = "loop"
    /\ LET r == extract_text_from_pdf(fs, analyze_path(selected[idx]))
       IN  IF r.exc # NoExc
           THEN /\ raised' = r.exc
                /\ http' = "500"
                /\ pc' = "done"
                /\ UNCHANGED <<candidates, idx>>
           ELSE /\ candidates' = candidates \o extract_question_candidates(r.text)
                /\ idx' = idx + 1
                /\ pc' = IF idx = Len(selected) THEN "clean" ELSE "loop"
                /\ UNCHANGED <<raised, http>>
    /\ UNCHANGED <<fs, text, rescan, response, final_questions, keywords, selected,
                   cpc, clist, cidx, startFiles, removed>>

\* lines 193-200
AnalyzeFinish(resp) ==
    /\ pc = "clean"
    /\ response' = resp
    /\ LET r == ai_clean_questions(candidates, resp)
       IN  IF r.raised # NoExc
           THEN /\ raised' = r.raised
                /\ http' = "500"
                /\ UNCHANGED <<final_questions, keywords>>
           ELSE /\ final_questions' = r.value
                /\ keywords' = extract_keywords(r.value)
                /\ http' = "result.html"
                /\ UNCHANGED raised
    /\ pc' = "done"
    /\ UNCHANGED <<fs, text, candidates, rescan, selected, idx, cpc, clist, cidx,
                   startFiles, removed>>

\* the analyze request is answered; the next one may come
AnalyzeEnd ==
    /\ pc = "done"
    /\ pc' = "idle"
    /\ selected' = <<>>
    /\ idx' = 0
    /\ http' = "none"
    /\ candidates' = <<>>
    /\ response' = NoResponse
    /\ final_questions' = <<>>
    /\ raised' = NoExc
    /\ keywords' = <<>>
    /\ startFiles' = {}
    /\ removed' = {}
    /\ UNCHANGED <<fs, text, rescan, cpc, clist, cidx>>

\* POST /clear, line 204: the listing is taken once
ClearStart ==
    /\ cpc = "idle"
    /\ clist' = get_uploaded_files(fs)
    /\ cidx' = 1
    /\ cpc' = IF get_uploaded_files(fs) = <<>> THEN "done" ELSE "loop"
    /\ UNCHANGED <<fs, pc, text, candidates, rescan, response, final_questions, raised,
                   keywords, selected, idx, http, startFiles, removed>>

\* one turn of the loop of lines 204-205: os.remove
ClearRemove ==
    /\ cpc = "loop"
    /\ LET path == path_join(UPLOAD_FOLDER, clist[cidx])
       IN  IF file_at(fs, path) = NoFile
           THEN /\ cpc' = "done"
                /\ UNCHANGED <<fs, cidx, removed>>
           ELSE /\ fs' = [fs EXCEPT ![path] = NoFile]
                /\ removed' = IF pc \in {"loop", "clean"} THEN removed \cup {clist[cidx]} ELSE removed
                /\ cidx' = cidx + 1
                /\ cpc' = IF cidx = Len(clist) THEN "done" ELSE "loop"
    /\ UNCHANGED <<pc, text, candidates, rescan, response, final_questions, raised,
                   keywords, selected, idx, http, clist, startFiles>>

\* the clear request is answered (line 206); the next one may come
ClearEnd ==
    /\ cpc = "done"
    /\ cpc' = "idle"
    /\ clist' = <<>>
    /\ cidx' = 0
    /\ UNCHANGED <<fs, pc, text, candidates, rescan, response, final_questions, raised,
                   keywords, selected, idx, http, startFiles, removed>>

SelectedLists == UNION {[1..n -> Range(PdfNames)] : n \in 0..MaxSelected}

Next ==
    \/ \E n \in UploadNames, doc \in Documents : Upload(n, doc)
    \/ \E sel \in SelectedLists : AnalyzeStart(sel)
    \/ AnalyzeRead
    \/ \E resp \in WebResponses : AnalyzeFinish(resp)
    \/ AnalyzeEnd
    \/ ClearStart
    \/ ClearRemove
    \/ ClearEnd

Spec == Init /\ [][Next]_vars

----------------------------------------------------------------------------
(* Claims about the routes, under Spec                                     *)

\* C4: an analyze request that selects several documents, one of which
\* cannot be opened or parsed, does not abort: the unreadable document
\* contributes no candidates, the loop goes on to the remaining documents,
\* and the request ends by rendering the results view with a question set
\* and a keyword tally.
C4_UnreadableDocumentSkipped ==
    (/\ pc = "done"
     /\ Len(selected) >= 2
     /\ Range(selected) \subseteq startFiles
     /\ removed = {}
     /\ \E k \in 1..Len(selected) : file_at(fs, analyze_path(selected[k])).parses) =>
        /\ raised = NoExc
        /\ http = "result.html"
        /\ final_questions # <<>>
        /\ keywords = extract_keywords(final_questions)

\* C10: analyze finds a selected PDF missing that was in the upload
\* directory when the request started only if a clear request removed it in
\* between: the directory is shared and nothing keeps clear from deleting a
\* file between analyze's start and analyze's open of it.
C10_MissingFileWasCleared ==
    (pc = "done" /\ raised = "FileNotFoundError" /\ selected[idx] \in startFiles) =>
        selected[idx] \in removed

\* analyze has tried to open a selected PDF that was there when the request
\* started and that clear, still running, has deleted since
C10_Witness ==
    /\ pc = "done"
    /\ http = "500"
    /\ raised = "FileNotFoundError"
    /\ selected[idx] \in startFiles
    /\ selected[idx] \in removed
    /\ cpc = "loop"
    /\ file_at(fs, analyze_path(selected[idx])) = NoFile

====
